---- MODULE Spec2Model ----
(***************************************************************************)
(* A model of src/editor.py: the modal editor `Editor` (Normal / Insert /  *)
(* Command mode over a list of lines), its directory-tree pane, its        *)
(* command line (w, q, wq, w <file>, e <file>) and the files it reads and  *)
(* writes.                                                                 *)
(*                                                                         *)
(* Representation.  A Python str is a sequence of one-character strings;   *)
(* `lines` is a sequence of such sequences.  Python indexes from 0, TLA+   *)
(* from 1: lines[row] of the source is lines[row + 1] here.  A key code is *)
(* a string: the character itself for a printable key (ord('h') is "h"),   *)
(* and "<...>" for the others.  A path is the text of the path; the tree's *)
(* root (os.getcwd()) is the empty relative path, for which os.path.join   *)
(* returns the bare name, so that a file has one path whether it is named  *)
(* on the command line or found in the tree.  None and "" (both falsy for  *)
(* a file name) are the empty sequence.                                    *)
(*                                                                         *)
(* Drawing is not modelled (the panes, the status bar, curses.error); the  *)
(* state changes of the drawing phase of the loop are.                     *)
(***************************************************************************)
EXTENDS Integers, Sequences, FiniteSets, TLC

VARIABLES
    lines,                \* self.lines
    row,                  \* self.row
    col,                  \* self.col
    mode,                 \* self.mode
    command_buffer,       \* self.command_buffer
    should_exit,          \* self.should_exit
    filename,             \* self.filename
    tree_view_active,     \* self.tree_view_active
    selected_item_index,  \* self.selected_item_index
    expanded_dirs,        \* self.expanded_dirs
    tree_items,           \* self.tree_items
    disk,                 \* the files: path -> content (a str), where a file exists
    dirs,                 \* the directories below the tree's root
    max_y,                \* stdscr.getmaxyx()[0]
    max_x,                \* stdscr.getmaxyx()[1]
    crashed,              \* an exception left Editor.run (the process has ended)
    key,                  \* the last key code handed to a handler
    next_key,             \* the key read by the blocking getch() of 'd', or NoKey
    modified,             \* history: lines were changed since the last load or save
    prev                  \* history: lines, row, col, mode and key before the last key

vars == <<lines, row, col, mode, command_buffer, should_exit, filename,
          tree_view_active, selected_item_index, expanded_dirs, tree_items,
          disk, dirs, max_y, max_x, crashed, key, next_key, modified, prev>>

----------------------------------------------------------------------------
(* Bounds *)

\* EditSpec: the largest buffer, counted as lines plus characters.
MaxSize == 5
\* Spec: the largest buffer (and file), counted as lines plus characters.
SessSize == 3
\* TreeSpec: the largest tree below the root, counted as directories plus files.
TreeSize == 3
\* ScreenSpec: the rows and the columns of the terminal.
SmallMaxY == 4
SmallMaxX == 36

----------------------------------------------------------------------------
(* Python's list and str operations *)

Min(a, b) == IF a < b THEN a ELSE b
Max(a, b) == IF a > b THEN a ELSE b

\* s[i:j]
Slice(s, i, j) == SubSeq(s, i + 1, j)
\* s[i:]
From(s, i) == SubSeq(s, i + 1, Len(s))
\* list.pop(i): the list without its element i
Pop(s, i) == SubSeq(s, 1, i) \o SubSeq(s, i + 2, Len(s))
\* list.insert(i, x)
Insert(s, i, x) == SubSeq(s, 1, i) \o <<x>> \o SubSeq(s, i + 1, Len(s))
\* l[i] = x
Put(s, i, x) == [s EXCEPT ![i + 1] = x]
\* l[i]
At(s, i) == s[i + 1]

RECURSIVE SumLen(_)
SumLen(ls) == IF ls = <<>> THEN 0 ELSE Len(Head(ls)) + SumLen(Tail(ls))
\* The size of a buffer: its lines plus its characters.
Size(ls) == Len(ls) + SumLen(ls)

----------------------------------------------------------------------------
(* Key codes *)

NoKey         == "<-1>"
K_TAB         == "<9>"
K_LF          == "<10>"
K_ESC         == "<27>"
K_BS          == "<8>"
K_DEL         == "<127>"
KEY_ENTER     == "<KEY_ENTER>"
KEY_BACKSPACE == "<KEY_BACKSPACE>"
KEY_LEFT      == "<KEY_LEFT>"
KEY_RIGHT     == "<KEY_RIGHT>"
KEY_UP        == "<KEY_UP>"
KEY_DOWN      == "<KEY_DOWN>"

\* The keys with 32 <= key <= 126 that the model types.
Printable == {"a", "b", "c", "d", "e", "h", "i", "j", "k", "l", "o", "O",
              "q", "w", "x", "!", ":", " ", "/"}
NL == "\n"

----------------------------------------------------------------------------
(* The files *)

\* The names of the entries of the model's directories.
Names == {"a", "b", "d", "r"}
\* sorted() of names: the order of the characters
NameOrder == <<"a", "b", "d", "r">>

\* The tree's root, os.getcwd(), as a relative path.
current_path == <<>>

\* os.path.join(path, name)
Join(path, name) == IF path = <<>> THEN <<name>> ELSE path \o <<"/">> \o <<name>>

\* The files of the model: a in the root, and /r outside of the root, which is
\* read-only (open(/r, 'w') raises PermissionError).
FileA == Join(current_path, "a")
RootR == <<"/", "r">>
ReadOnly == {RootR}

\* os.path.isdir, os.path.isfile, os.path.exists.  self.dirs is the set of the
\* directories below the root, self.disk the content of each file; "/", in
\* which /r is, is a directory.
IsDir(self, p) == p \in self.dirs \/ p = <<"/">>
IsFile(self, p) == p \in DOMAIN self.disk
PathExists(self, p) == IsDir(self, p) \/ IsFile(self, p)

\* os.listdir(path), as a set of names
ListDir(self, path) == {n \in Names : PathExists(self, Join(path, n))}

\* sorted(S) for a set S of names
Sorted(S) == SelectSeq(NameOrder, LAMBDA n : n \in S)

\* Whether open(p, 'w') succeeds: p is a name in the root or in a directory,
\* and neither a directory nor read-only.
CanWrite(self, p) ==
    /\ p \in {Join(dir, n) : dir \in {current_path} \cup self.dirs, n \in Names}
    /\ p \notin self.dirs
    /\ p \notin ReadOnly

\* The disk after open(p, 'w') and the writes.
WriteDisk(d, p, content) ==
    [q \in DOMAIN d \cup {p} |-> IF q = p THEN content ELSE d[q]]

\* f.readlines(): the content cut after each "\n"
RECURSIVE ReadLines(_)
ReadLines(s) ==
    IF s = <<>> THEN <<>>
    ELSE IF \E i \in 1..Len(s) : s[i] = NL
         THEN LET i == CHOOSE j \in 1..Len(s) :
                           s[j] = NL /\ \A m \in 1..(j - 1) : s[m] # NL
              IN  <<SubSeq(s, 1, i)>> \o ReadLines(SubSeq(s, i + 1, Len(s)))
         ELSE <<s>>

\* line.rstrip('\n')
RECURSIVE RStripNL(_)
RStripNL(s) ==
    IF s # <<>> /\ s[Len(s)] = NL THEN RStripNL(SubSeq(s, 1, Len(s) - 1)) ELSE s

\* [line.rstrip('\n') for line in f.readlines()]
ReadFile(content) ==
    LET ls == ReadLines(content) IN [i \in 1..Len(ls) |-> RStripNL(ls[i])]

\* WriteFile joining the lines by "\n": the last line is left unterminated.
RECURSIVE WriteFile_joined(_)
WriteFile_joined(ls) ==
    IF ls = <<>> THEN <<>>
    ELSE IF Len(ls) = 1 THEN Head(ls)
    ELSE Head(ls) \o <<NL>> \o WriteFile_joined(Tail(ls))

\* for line in self.lines: f.write(line + '\n')
RECURSIVE WriteFile(_)
WriteFile(ls) ==
    IF ls = <<>> THEN <<>> ELSE Head(ls) \o <<NL>> \o WriteFile(Tail(ls))

\* str.strip() (the model's only white space is the blank)
RECURSIVE LStrip(_)
LStrip(s) == IF s # <<>> /\ Head(s) = " " THEN LStrip(Tail(s)) ELSE s
RECURSIVE RStrip(_)
RStrip(s) ==
    IF s # <<>> /\ s[Len(s)] = " " THEN RStrip(SubSeq(s, 1, Len(s) - 1)) ELSE s
Strip(s) == RStrip(LStrip(s))

\* str.startswith
StartsWith(s, p) == Len(s) >= Len(p) /\ SubSeq(s, 1, Len(p)) = p

----------------------------------------------------------------------------
(* The messages written to the command line *)

MsgNoFilename == <<"No filename. Use :w <filename>">>
MsgSaved(f)    == <<"S", "a", "v", "e", "d", " ", "t", "o", " ">> \o f
MsgLoaded(f)   == <<"L", "o", "a", "d", "e", "d", " ">> \o f
MsgNotFound(f) == <<"F", "i", "l", "e", " ", "n", "o", "t", " ", "f", "o", "u", "n", "d", ":", " ">> \o f
\* f"Error saving: {e}", f"Error loading: {e}": the text of e is not modelled
MsgErrorSaving  == <<"E", "r", "r", "o", "r", " ", "s", "a", "v", "i", "n", "g", ":", " ">> \o <<"{e}">>
MsgErrorLoading == <<"E", "r", "r", "o", "r", " ", "l", "o", "a", "d", "i", "n", "g", ":", " ">> \o <<"{e}">>

----------------------------------------------------------------------------
(* Editor.  An Editor object, with the disk it works on, is a record `self` *)
(* of the fields lines, row, col, mode, command_buffer, should_exit,        *)
(* filename, tree_view_active, selected_item_index, expanded_dirs,          *)
(* tree_items, and of disk and dirs (the files), crashed (an exception has left the  *)
(* method and Editor.run) and modified (history, see save_file).  A method  *)
(* is the object after the call.                                            *)

\* The item appended for one entry of a directory.
TreeItem(path, prefix, is_dir) == [path |-> path, prefix |-> prefix, is_dir |-> is_dir]

\* Editor._get_tree_items(path, prefix): the entries of path, its directories
\* first, each followed by its own entries when it is an expanded directory.
\* (Every directory of the model can be listed: no PermissionError.)
RECURSIVE get_tree_items(_, _, _), tree_items_of(_, _, _, _)
tree_items_of(self, path, prefix, names) ==
    IF names = <<>> THEN <<>>
    ELSE LET full_path == Join(path, Head(names))
             is_dir    == IsDir(self, full_path)
         IN  <<TreeItem(full_path, prefix, is_dir)>>
             \o (IF is_dir /\ full_path \in self.expanded_dirs
                 THEN get_tree_items(self, full_path, prefix \o <<" ", " ">>)
                 ELSE <<>>)
             \o tree_items_of(self, path, prefix, Tail(names))
\* _get_tree_items listing the files of a directory before its directories.
get_tree_items_files_first(self, path, prefix) ==
    LET entries  == ListDir(self, path)
        the_dirs == Sorted({d \in entries : IsDir(self, Join(path, d))})
        files    == Sorted({f \in entries : IsFile(self, Join(path, f))})
    IN  tree_items_of(self, path, prefix, files \o the_dirs)

get_tree_items(self, path, prefix) ==
    LET entries  == ListDir(self, path)
        the_dirs == Sorted({d \in entries : IsDir(self, Join(path, d))})
        files    == Sorted({f \in entries : IsFile(self, Join(path, f))})
    IN  tree_items_of(self, path, prefix, the_dirs \o files)

\* Editor._update_tree_items
update_tree_items(self) ==
    [self EXCEPT !.tree_items = get_tree_items(self, current_path, <<>>)]

\* load_file without lines 352-353: an empty file leaves no line.
load_file_no_empty_guard(self, fname) ==
    IF IsFile(self, fname)
    THEN [self EXCEPT !.lines = ReadFile(self.disk[fname]),
                      !.row = 0,
                      !.col = 0,
                      !.filename = fname,
                      !.command_buffer = MsgLoaded(fname),
                      !.modified = FALSE]
    ELSE IF IsDir(self, fname)
         THEN [self EXCEPT !.command_buffer = MsgErrorLoading]
         ELSE [self EXCEPT !.command_buffer = MsgNotFound(fname)]

\* Editor.load_file.  A file that is read sets modified to FALSE.
load_file(self, fname) ==
    IF IsFile(self, fname)
    THEN LET read == ReadFile(self.disk[fname])
         IN  [self EXCEPT !.lines = IF read = <<>> THEN << <<>> >> ELSE read,
                          !.row = 0,
                          !.col = 0,
                          !.filename = fname,
                          !.command_buffer = MsgLoaded(fname),
                          !.modified = FALSE]
    ELSE IF IsDir(self, fname)
         THEN [self EXCEPT !.command_buffer = MsgErrorLoading]
         ELSE [self EXCEPT !.command_buffer = MsgNotFound(fname)]

\* Editor.save_file.  A file that is written sets modified to FALSE.
save_file(self, fname) ==
    LET target_filename == IF fname # <<>> THEN fname ELSE self.filename
    IN  IF target_filename = <<>>
        THEN [self EXCEPT !.command_buffer = MsgNoFilename]
        ELSE IF CanWrite(self, target_filename)
             THEN [self EXCEPT !.disk = WriteDisk(self.disk, target_filename,
                                                  WriteFile(self.lines)),
                               !.command_buffer = MsgSaved(target_filename),
                               !.filename = target_filename,
                               !.modified = FALSE]
             ELSE [self EXCEPT !.command_buffer = MsgErrorSaving]

\* Editor.execute_command
execute_command(self, command) ==
    IF command = <<"w">> THEN save_file(self, <<>>)
    ELSE IF command = <<"q">> THEN [self EXCEPT !.should_exit = TRUE]
    ELSE IF command = <<"w", "q">>
         THEN [save_file(self, <<>>) EXCEPT !.should_exit = TRUE]
    ELSE IF StartsWith(command, <<"w", " ">>)
         THEN save_file(self, Strip(From(command, 2)))
    ELSE IF StartsWith(command, <<"e", " ">>)
         THEN load_file(self, Strip(From(command, 2)))
    ELSE self

\* Editor.handle_command_mode_key
handle_command_mode_key(self, k) ==
    IF k = KEY_ENTER \/ k = K_LF
    THEN [execute_command(self, self.command_buffer)
              EXCEPT !.command_buffer = <<>>, !.mode = "normal"]
    ELSE IF k = KEY_BACKSPACE \/ k = K_DEL \/ k = K_BS
         THEN [self EXCEPT !.command_buffer =
                   SubSeq(self.command_buffer, 1, Len(self.command_buffer) - 1)]
    ELSE IF k = K_ESC
         THEN [self EXCEPT !.command_buffer = <<>>, !.mode = "normal"]
    ELSE IF k \in Printable
         THEN [self EXCEPT !.command_buffer = Append(self.command_buffer, k)]
    ELSE self

\* self.tree_items[i]: whether the index is in the list, and the element
\* (a negative index counts from the end).
InList(s, i) == -Len(s) <= i /\ i < Len(s)
Item(s, i) == IF i >= 0 THEN s[i + 1] ELSE s[Len(s) + i + 1]

\* Editor.handle_tree_view_key
handle_tree_view_key(self, k) ==
    IF k = "j" \/ k = KEY_DOWN
    THEN [self EXCEPT !.selected_item_index =
              Min(Len(self.tree_items) - 1, self.selected_item_index + 1)]
    ELSE IF k = "k" \/ k = KEY_UP
    THEN [self EXCEPT !.selected_item_index = Max(0, self.selected_item_index - 1)]
    ELSE IF k = KEY_ENTER \/ k = K_LF
    THEN IF self.selected_item_index < Len(self.tree_items)
         THEN IF ~InList(self.tree_items, self.selected_item_index)
              THEN [self EXCEPT !.crashed = TRUE]    \* IndexError
              ELSE LET selected == Item(self.tree_items, self.selected_item_index)
                   IN  IF selected.is_dir
                       THEN update_tree_items(
                                [self EXCEPT !.expanded_dirs =
                                    IF selected.path \in self.expanded_dirs
                                    THEN self.expanded_dirs \ {selected.path}
                                    ELSE self.expanded_dirs \cup {selected.path}])
                       ELSE [load_file(self, selected.path)
                                 EXCEPT !.tree_view_active = FALSE]
         ELSE self
    ELSE IF k = "q" THEN [self EXCEPT !.should_exit = TRUE]
    ELSE IF k = K_TAB
    THEN [self EXCEPT !.tree_view_active = ~self.tree_view_active]
    ELSE self

\* Editor.handle_normal_mode_key, key 'x': delete the character under the cursor.
delete_char_under_cursor(self) ==
    IF self.col < Len(At(self.lines, self.row))
    THEN [self EXCEPT !.lines =
              Put(self.lines, self.row, Pop(At(self.lines, self.row), self.col))]
    ELSE self

\* delete_line without line 236: the column is not clamped to the new line.
delete_line_stale_col(self) ==
    IF Len(self.lines) > 1
    THEN LET ls == Pop(self.lines, self.row)
             r  == IF self.row >= Len(ls) THEN Len(ls) - 1 ELSE self.row
         IN  [self EXCEPT !.lines = ls, !.row = r]
    ELSE [self EXCEPT !.lines = << <<>> >>, !.row = 0, !.col = 0]

\* delete_line popping the last line instead of the current one.
delete_line_pops_last(self) ==
    IF Len(self.lines) > 1
    THEN LET ls == Pop(self.lines, Len(self.lines) - 1)
             r  == IF self.row >= Len(ls) THEN Len(ls) - 1 ELSE self.row
         IN  [self EXCEPT !.lines = ls,
                          !.row = r,
                          !.col = Min(self.col, Len(At(ls, r)))]
    ELSE [self EXCEPT !.lines = << <<>> >>, !.row = 0, !.col = 0]

\* Editor.handle_normal_mode_key, keys 'd' 'd': delete the current line.
delete_line(self) ==
    IF Len(self.lines) > 1
    THEN LET ls == Pop(self.lines, self.row)
             r  == IF self.row >= Len(ls) THEN Len(ls) - 1 ELSE self.row
         IN  [self EXCEPT !.lines = ls,
                          !.row = r,
                          !.col = Min(self.col, Len(At(ls, r)))]
    ELSE [self EXCEPT !.lines = << <<>> >>, !.row = 0, !.col = 0]

\* Editor.handle_normal_mode_key, key 'o': a new line below.
open_line_below(self) ==
    [self EXCEPT !.lines = Insert(self.lines, self.row + 1, <<>>),
                 !.row = self.row + 1,
                 !.col = 0,
                 !.mode = "insert"]

\* Editor.handle_normal_mode_key, key 'O': a new line above.
open_line_above(self) ==
    [self EXCEPT !.lines = Insert(self.lines, self.row, <<>>),
                 !.col = 0,
                 !.mode = "insert"]

\* Editor.handle_normal_mode_key.  next is what the blocking getch() of 'd' returns.
handle_normal_mode_key(self, k, next) ==
    LET current_line_len == Len(At(self.lines, self.row))
    IN
    IF k = "h" \/ k = KEY_LEFT
    THEN [self EXCEPT !.col = Max(0, self.col - 1)]
    ELSE IF k = "l" \/ k = KEY_RIGHT
    THEN [self EXCEPT !.col = Min(current_line_len, self.col + 1)]
    ELSE IF k = "j" \/ k = KEY_DOWN
    THEN LET r == Min(Len(self.lines) - 1, self.row + 1)
         IN  [self EXCEPT !.row = r, !.col = Min(Len(At(self.lines, r)), self.col)]
    ELSE IF k = "k" \/ k = KEY_UP
    THEN LET r == Max(0, self.row - 1)
         IN  [self EXCEPT !.row = r, !.col = Min(Len(At(self.lines, r)), self.col)]
    ELSE IF k = "i"
    THEN [self EXCEPT !.mode = "insert"]
    ELSE IF k = "x"
    THEN delete_char_under_cursor(self)
    ELSE IF k = "d"
    THEN IF next = "d" THEN delete_line(self) ELSE self
    ELSE IF k = "o"
    THEN open_line_below(self)
    ELSE IF k = "O"
    THEN open_line_above(self)
    ELSE IF k = ":"
    THEN [self EXCEPT !.mode = "command", !.command_buffer = <<>>]
    ELSE IF k = K_TAB
    THEN [self EXCEPT !.tree_view_active = ~self.tree_view_active]
    ELSE self

\* backspace whose join leaves the cursor at the end of the joined line.
backspace_join_to_end(self) ==
    LET current_line_str == At(self.lines, self.row)
    IN  IF self.col > 0
        THEN [self EXCEPT !.lines = Put(self.lines, self.row,
                                        Slice(current_line_str, 0, self.col - 1)
                                        \o From(current_line_str, self.col)),
                          !.col = self.col - 1]
        ELSE IF self.row > 0
        THEN LET prev_line == At(self.lines, self.row)
                 ls        == Pop(self.lines, self.row)
                 r         == self.row - 1
             IN  [self EXCEPT !.lines = Put(ls, r, At(ls, r) \o prev_line),
                              !.row = r,
                              !.col = Len(At(ls, r) \o prev_line)]
        ELSE self

\* Editor.handle_insert_mode_key, a backspace key: delete the character before
\* the cursor, or at column 0 join the line to the one above.
backspace(self) ==
    LET current_line_str == At(self.lines, self.row)
    IN  IF self.col > 0
        THEN [self EXCEPT !.lines = Put(self.lines, self.row,
                                        Slice(current_line_str, 0, self.col - 1)
                                        \o From(current_line_str, self.col)),
                          !.col = self.col - 1]
        ELSE IF self.row > 0
        THEN LET prev_line == At(self.lines, self.row)
                 ls        == Pop(self.lines, self.row)
                 r         == self.row - 1
             IN  [self EXCEPT !.lines = Put(ls, r, At(ls, r) \o prev_line),
                              !.row = r,
                              !.col = Len(At(ls, r))]
        ELSE self

\* split_line_at_cursor without line 280: the current line keeps its tail.
split_line_keeps_tail(self) ==
    IF self.col = Len(At(self.lines, self.row))
    THEN [self EXCEPT !.lines = Insert(self.lines, self.row + 1, <<>>),
                      !.row = self.row + 1,
                      !.col = 0]
    ELSE LET line_after_cursor == From(At(self.lines, self.row), self.col)
         IN  [self EXCEPT !.lines = Insert(self.lines, self.row + 1,
                                           line_after_cursor),
                          !.row = self.row + 1,
                          !.col = 0]

\* Editor.handle_insert_mode_key, an enter key: split the line at the cursor.
split_line_at_cursor(self) ==
    IF self.col = Len(At(self.lines, self.row))
    THEN [self EXCEPT !.lines = Insert(self.lines, self.row + 1, <<>>),
                      !.row = self.row + 1,
                      !.col = 0]
    ELSE LET line_before_cursor == Slice(At(self.lines, self.row), 0, self.col)
             line_after_cursor  == From(At(self.lines, self.row), self.col)
         IN  [self EXCEPT !.lines = Insert(Put(self.lines, self.row,
                                               line_before_cursor),
                                           self.row + 1, line_after_cursor),
                          !.row = self.row + 1,
                          !.col = 0]

\* insert_character appending the character to the line, wherever the cursor is.
insert_character_appends(self, k) ==
    LET current_line_str == At(self.lines, self.row)
    IN  [self EXCEPT !.lines = Put(self.lines, self.row, current_line_str \o <<k>>),
                     !.col = self.col + 1]

\* Editor.handle_insert_mode_key, a printable key: insert the character.
insert_character(self, k) ==
    LET current_line_str == At(self.lines, self.row)
    IN  [self EXCEPT !.lines = Put(self.lines, self.row,
                                   Slice(current_line_str, 0, self.col) \o <<k>>
                                   \o From(current_line_str, self.col)),
                     !.col = self.col + 1]

\* Editor.handle_insert_mode_key
handle_insert_mode_key(self, k) ==
    IF k = KEY_BACKSPACE \/ k = K_DEL \/ k = K_BS
    THEN backspace(self)
    ELSE IF k = KEY_ENTER \/ k = K_LF
    THEN split_line_at_cursor(self)
    ELSE IF k = K_ESC
    THEN [self EXCEPT !.mode = "normal"]
    ELSE IF k = KEY_LEFT
    THEN [self EXCEPT !.col = Max(0, self.col - 1)]
    ELSE IF k = KEY_RIGHT
    THEN [self EXCEPT !.col = Min(Len(At(self.lines, self.row)), self.col + 1)]
    ELSE IF k = KEY_UP
    THEN LET r == Max(0, self.row - 1)
         IN  [self EXCEPT !.row = r, !.col = Min(Len(At(self.lines, r)), self.col)]
    ELSE IF k = KEY_DOWN
    THEN LET r == Min(Len(self.lines) - 1, self.row + 1)
         IN  [self EXCEPT !.row = r, !.col = Min(Len(At(self.lines, r)), self.col)]
    ELSE IF k \in Printable
    THEN insert_character(self, k)
    ELSE self

\* handle_key in which the Tab key changes the focus in Insert mode too.
handle_key_tab_in_insert(self, k, next) ==
    LET after == IF self.mode = "normal" THEN handle_normal_mode_key(self, k, next)
                 ELSE IF self.mode = "insert"
                 THEN IF k = K_TAB
                      THEN [self EXCEPT !.tree_view_active = ~self.tree_view_active]
                      ELSE handle_insert_mode_key(self, k)
                 ELSE self
    IN  [after EXCEPT !.modified = self.modified \/ after.lines # self.lines]

\* handle_key that hands the key read after an unmatched 'd' to the handler, as
\* the next key of the loop would be.
handle_key_redispatches(self, k, next) ==
    LET after == IF self.mode = "normal"
                 THEN IF k = "d" /\ next # "d"
                      THEN handle_normal_mode_key(self, next, NoKey)
                      ELSE handle_normal_mode_key(self, k, next)
                 ELSE IF self.mode = "insert" THEN handle_insert_mode_key(self, k)
                 ELSE self
    IN  [after EXCEPT !.modified = self.modified \/ after.lines # self.lines]

\* Editor.handle_key.  Lines that the handler changed set modified.
handle_key(self, k, next) ==
    LET after == IF self.mode = "normal" THEN handle_normal_mode_key(self, k, next)
                 ELSE IF self.mode = "insert" THEN handle_insert_mode_key(self, k)
                 ELSE self
    IN  [after EXCEPT !.modified = self.modified \/ after.lines # self.lines]

----------------------------------------------------------------------------
(* Editor.run: one turn of the loop is the drawing phase, then getch() and *)
(* the handler of the key.                                                 *)

tree_width == 30

\* len(str(n)) for n >= 0
RECURSIVE Digits(_)
Digits(n) == IF n < 10 THEN 1 ELSE 1 + Digits(n \div 10)

\* The drawing phase: the tree's items are listed again when the tree has the
\* focus; otherwise the cursor is constrained to the buffer and to the window.
draw(self, my, mx) ==
    IF self.tree_view_active
    THEN update_tree_items(self)
    ELSE LET editor_win_x      == tree_width + 1
             editor_win_width  == mx - editor_win_x
             editor_win_height == my - 2
             line_num_width    == Digits(Len(self.lines)) + 2
             r1 == Max(0, Min(self.row, Len(self.lines) - 1))
             r2 == Max(0, Min(r1, editor_win_height - 1))
             current_line_len == Len(At(self.lines, r2))
             c1 == Max(0, Min(self.col, current_line_len))
             c2 == Max(0, Min(c1, editor_win_width - line_num_width - 1))
         IN  [self EXCEPT !.row = r2, !.col = c2]

\* dispatch without the test of tree_view_active: the tree gets no key.
dispatch_ignores_tree_focus(self, k, next) ==
    IF k = NoKey THEN self
    ELSE IF self.mode = "command" THEN handle_command_mode_key(self, k)
    ELSE handle_key(self, k, next)

\* The handler the key goes to.
dispatch(self, k, next) ==
    IF k = NoKey THEN self
    ELSE IF self.mode = "command" THEN handle_command_mode_key(self, k)
    ELSE IF self.tree_view_active THEN handle_tree_view_key(self, k)
    ELSE handle_key(self, k, next)

\* One turn of the loop.
run(self, my, mx, k, next) == dispatch(draw(self, my, mx), k, next)

----------------------------------------------------------------------------
(* The state *)

\* The Editor object and its disk, as the methods take them.
Self ==
    [lines |-> lines, row |-> row, col |-> col, mode |-> mode,
     command_buffer |-> command_buffer, should_exit |-> should_exit,
     filename |-> filename, tree_view_active |-> tree_view_active,
     selected_item_index |-> selected_item_index,
     expanded_dirs |-> expanded_dirs, tree_items |-> tree_items,
     disk |-> disk, dirs |-> dirs, crashed |-> crashed, modified |-> modified]

\* The object after a call becomes the state.
Becomes(after) ==
    /\ lines' = after.lines
    /\ row' = after.row
    /\ col' = after.col
    /\ mode' = after.mode
    /\ command_buffer' = after.command_buffer
    /\ should_exit' = after.should_exit
    /\ filename' = after.filename
    /\ tree_view_active' = after.tree_view_active
    /\ selected_item_index' = after.selected_item_index
    /\ expanded_dirs' = after.expanded_dirs
    /\ tree_items' = after.tree_items
    /\ disk' = after.disk
    /\ dirs' = after.dirs
    /\ crashed' = after.crashed
    /\ modified' = after.modified

\* The state as prev records it.
Snapshot == [lines |-> lines, row |-> row, col |-> col, mode |-> mode, key |-> key]

\* Editor.__init__(stdscr, fname) over the disk d, as a record.
init(d, ds, fname) ==
    LET read == IF fname # <<>> /\ fname \in DOMAIN d
                THEN ReadFile(d[fname]) ELSE <<>>
    IN  [lines |-> IF read = <<>> THEN << <<>> >> ELSE read,
         row |-> 0, col |-> 0, mode |-> "normal",
         command_buffer |-> <<>>, should_exit |-> FALSE,
         filename |-> fname, tree_view_active |-> TRUE,
         selected_item_index |-> 0,
         expanded_dirs |-> {current_path}, tree_items |-> <<>>,
         disk |-> d, dirs |-> ds,
         crashed |-> fname \in ds,    \* IsADirectoryError
         modified |-> FALSE]

\* MockStdscr's screen
MockMaxY == 24
MockMaxX == 80
\* The terminals of the model.
Terminals == {<<MockMaxY, MockMaxX>>}

\* The strings of at most n characters of C.
RECURSIVE Strings(_, _)
Strings(C, n) ==
    IF n <= 0 THEN {<<>>}
    ELSE {<<>>} \cup {<<c>> \o t : c \in C, t \in Strings(C, n - 1)}

\* The buffers (non-empty lists of lines) of size at most n over C.
RECURSIVE Buffers(_, _)
Buffers(C, n) ==
    IF n <= 0 THEN {}
    ELSE {<<l>> : l \in Strings(C, n - 1)}
         \cup UNION {{<<l>> \o rest : rest \in Buffers(C, n - 1 - Len(l))}
                     : l \in Strings(C, n - 2)}

----------------------------------------------------------------------------
(* Spec: a session.  Editor(stdscr, fname) is built over a disk holding a    *)
(* (of some content) and /r, with or without a file name, and Editor.run     *)
(* turns until should_exit or an exception.  The user types "a" as text and  *)
(* the commands of Commands.                                                 *)

SessChars == {"a"}
\* What a holds at the start: nothing, a line, a line and an unterminated one.
InitContents == {<<>>, <<"a", NL>>, <<NL, "a">>}
ContentR == <<"a", NL>>

Commands == {<<"w">>, <<"q">>, <<"q", "!">>, <<"w", "q">>, <<"w", " ", "a">>,
             <<"e", " ", "a">>, <<"e", " ", "b">>, <<"e", " ", "/", "r">>}

\* The keys the user presses, by where the key goes.
SessKeys ==
    IF mode = "command"
    THEN {K_LF, K_ESC, K_BS, K_TAB}
         \cup {c \in Printable :
                 \E cmd \in Commands : StartsWith(cmd, Append(command_buffer, c))}
    ELSE IF tree_view_active THEN {"j", "k", K_LF, "q", K_TAB}
    ELSE IF mode = "normal"
    THEN {"h", "l", "j", "k", "i", "x", "d", "o", "O", ":", K_TAB}
    ELSE SessChars \cup {K_BS, K_LF, K_ESC, K_TAB,
                         KEY_LEFT, KEY_RIGHT, KEY_UP, KEY_DOWN}

\* Whether the handler of k does the blocking getch() of 'd'.
ReadsNext(k) == k = "d" /\ mode = "normal"
SessReadsNext(k) == ReadsNext(k) /\ ~tree_view_active

\* The object built is the first state.
Starts(obj) ==
    /\ lines = obj.lines
    /\ row = obj.row
    /\ col = obj.col
    /\ mode = obj.mode
    /\ command_buffer = obj.command_buffer
    /\ should_exit = obj.should_exit
    /\ filename = obj.filename
    /\ tree_view_active = obj.tree_view_active
    /\ selected_item_index = obj.selected_item_index
    /\ expanded_dirs = obj.expanded_dirs
    /\ tree_items = obj.tree_items
    /\ disk = obj.disk
    /\ dirs = obj.dirs
    /\ crashed = obj.crashed
    /\ modified = obj.modified
    /\ key = NoKey
    /\ next_key = NoKey
    /\ prev = [lines |-> obj.lines, row |-> obj.row, col |-> obj.col,
               mode |-> obj.mode, key |-> NoKey]

Init ==
    /\ \E content \in InitContents, fname \in {<<>>, FileA} :
           Starts(init((FileA :> content) @@ (RootR :> ContentR), {}, fname))
    /\ \E t \in Terminals : max_y = t[1] /\ max_x = t[2]

\* A turn of the loop in which getch() returns a key.
KeyTurn ==
    /\ ~should_exit /\ ~crashed
    /\ \E k \in SessKeys :
         \E next \in IF SessReadsNext(k) THEN {"d", "x"} ELSE {NoKey} :
           LET after == run(Self, max_y, max_x, k, next)
           IN  /\ Size(after.lines) <= SessSize
               /\ Becomes(after)
               /\ key' = k
               /\ next_key' = next
    /\ UNCHANGED <<max_y, max_x, prev>>

\* A turn of the loop in which getch() returns -1.
IdleTurn ==
    /\ ~should_exit /\ ~crashed
    /\ Becomes(run(Self, max_y, max_x, NoKey, NoKey))
    /\ UNCHANGED <<max_y, max_x, key, next_key, prev>>

Next == KeyTurn \/ IdleTurn

Spec == Init /\ [][Next]_vars

----------------------------------------------------------------------------
(* EditSpec: the keys of an input sequence handed to Editor.handle_key, as   *)
(* run_editor_for_test does, on an Editor whose lines are initial_lines.     *)
(* The blocking getch() of 'd' returns what the caller's stdscr returns: a   *)
(* key, or -1 as the mock does.  prev records the buffer before each key.    *)

EditChars == {"a", "b"}

EditKeys ==
    IF mode = "normal"
    THEN {"h", "l", "j", "k", "i", "x", "d", "o", "O", ":", "a",
          KEY_LEFT, KEY_RIGHT, KEY_UP, KEY_DOWN}
    ELSE IF mode = "insert"
    THEN EditChars \cup {K_BS, K_DEL, KEY_BACKSPACE, K_LF, KEY_ENTER, K_ESC,
                         KEY_LEFT, KEY_RIGHT, KEY_UP, KEY_DOWN}
    ELSE {K_ESC}

InitEdit ==
    /\ \E initial_lines \in Buffers(EditChars, MaxSize) :
           Starts([init(<<>>, {}, <<>>) EXCEPT !.lines = initial_lines])
    /\ max_y = MockMaxY
    /\ max_x = MockMaxX

\* for key_code in input_sequence: editor.handle_key(key_code)
EditKey ==
    /\ \E k \in EditKeys :
         \E next \in IF ReadsNext(k) THEN {"d", "x", NoKey} ELSE {NoKey} :
           LET after == handle_key(Self, k, next)
           IN  /\ Size(after.lines) <= MaxSize
               /\ Becomes(after)
               /\ key' = k
               /\ next_key' = next
    /\ prev' = Snapshot
    /\ UNCHANGED <<max_y, max_x>>

NextEdit == EditKey

EditSpec == InitEdit /\ [][NextEdit]_vars

----------------------------------------------------------------------------
(* FileSpec: an Editor whose lines are initial_lines (built as               *)
(* run_editor_for_test builds it), no file on the disk, then turns of        *)
(* Editor.run in which the user deletes characters, saves the buffer to a    *)
(* (w a) and opens a (e a), and new sessions on a (a new Editor(stdscr, "a") *)
(* over the same disk).                                                      *)

FileCommands == {<<"w", " ", "a">>, <<"e", " ", "a">>}

FileKeys ==
    IF mode = "command"
    THEN {K_LF, KEY_ENTER}
         \cup {c \in Printable :
                 \E cmd \in FileCommands : StartsWith(cmd, Append(command_buffer, c))}
    ELSE IF tree_view_active THEN {K_TAB}
    ELSE {"x", "j", ":"}

InitFile ==
    /\ \E initial_lines \in Buffers(EditChars, MaxSize) :
           Starts([init(<<>>, {}, <<>>) EXCEPT !.lines = initial_lines])
    /\ max_y = MockMaxY
    /\ max_x = MockMaxX

\* A turn of the loop in which getch() returns a key.
FileKey ==
    /\ \E k \in FileKeys :
           /\ Becomes(run(Self, max_y, max_x, k, NoKey))
           /\ key' = k
    /\ next_key' = NoKey
    /\ prev' = Snapshot
    /\ UNCHANGED <<max_y, max_x>>

\* A new process: Editor(stdscr, "a") over the disk as it is.
NewSession ==
    /\ Becomes(init(disk, dirs, FileA))
    /\ key' = NoKey
    /\ next_key' = NoKey
    /\ prev' = Snapshot
    /\ UNCHANGED <<max_y, max_x>>

NextFile == FileKey \/ NewSession

FileSpec == InitFile /\ [][NextFile]_vars

----------------------------------------------------------------------------
(* TreeSpec: a session started without a file name in a directory that holds *)
(* some tree of directories and files (none, too), in which the user moves   *)
(* the selection of the tree, opens and closes directories, opens files and  *)
(* changes the focus.                                                        *)

TreeNames == {"a", "b", "d"}

\* The trees of at most n entries: the directories and the files below the
\* root, every entry in the root or in a directory of the tree.
RECURSIVE Trees(_)
Trees(n) ==
    IF n <= 0 THEN {[dirs |-> {}, files |-> {}]}
    ELSE LET smaller == Trees(n - 1)
             New(t)  == {Join(parent, name) :
                           parent \in {current_path} \cup t.dirs, name \in TreeNames}
                        \ (t.dirs \cup t.files)
         IN  smaller
             \cup UNION {{[t EXCEPT !.dirs = t.dirs \cup {p}] : p \in New(t)}
                         : t \in smaller}
             \cup UNION {{[t EXCEPT !.files = t.files \cup {p}] : p \in New(t)}
                         : t \in smaller}

TreeKeys ==
    IF tree_view_active
    THEN {"j", "k", K_LF, K_TAB}
    ELSE {K_TAB}

InitTree ==
    /\ \E t \in Trees(TreeSize) :
           Starts(init([f \in t.files |-> ContentR], t.dirs, <<>>))
    /\ max_y = MockMaxY
    /\ max_x = MockMaxX

\* A turn of the loop in which getch() returns a key.
TreeTurn ==
    /\ ~should_exit /\ ~crashed
    /\ \E k \in TreeKeys :
           /\ Becomes(run(Self, max_y, max_x, k, NoKey))
           /\ key' = k
    /\ next_key' = NoKey
    /\ UNCHANGED <<max_y, max_x, prev>>

NextTree == TreeTurn \/ IdleTurn

TreeSpec == InitTree /\ [][NextTree]_vars

----------------------------------------------------------------------------
(* ScreenSpec: the session of Spec on a small terminal, in which the editor  *)
(* window has SmallMaxY - 2 rows and SmallMaxX - tree_width - 1 columns.     *)

InitScreen ==
    /\ \E content \in InitContents, fname \in {<<>>, FileA} :
           Starts(init((FileA :> content) @@ (RootR :> ContentR), {}, fname))
    /\ max_y = SmallMaxY
    /\ max_x = SmallMaxX

ScreenSpec == InitScreen /\ [][Next]_vars

----------------------------------------------------------------------------
(* The claims *)

Backspaces == {KEY_BACKSPACE, K_DEL, K_BS}
Enters     == {KEY_ENTER, K_LF}

\* Whether the key that led to this state inserted a character in Insert mode.
Inserted == prev.mode = "insert" /\ key \in Printable
\* Whether the key that led to this state split a line in Insert mode.
Splitted == prev.mode = "insert" /\ key \in Enters
\* Whether the key that led to this state was a confirmed delete_line.
DeletedLine == prev.mode = "normal" /\ key = "d" /\ next_key = "d"

\* C1: after every key handled by the Normal-mode and Insert-mode handlers,
\* 0 <= cursor_row < len(lines) and 0 <= cursor_col <= len(lines[cursor_row]).
C1_CursorInBounds ==
    /\ 0 <= row
    /\ row < Len(lines)
    /\ 0 <= col
    /\ col <= Len(lines[row + 1])

\* dd on the last line of several, with the cursor beyond the end of the line
\* above: both the row and the column had to be clamped.
C1_Witness ==
    /\ DeletedLine
    /\ Len(prev.lines) > 1
    /\ prev.row = Len(prev.lines) - 1
    /\ row = prev.row - 1
    /\ col < prev.col

\* C2: in every reachable state of a session the buffer has at least one line.
C2_LinesNeverEmpty == Len(lines) >= 1

\* The tree has just loaded the file a, which is empty.
C2_Witness ==
    /\ key = K_LF
    /\ command_buffer = MsgLoaded(FileA)
    /\ disk[FileA] = <<>>
    /\ lines = << <<>> >>

\* C3: a confirmed delete_line on a buffer of one line leaves one empty line and
\* the cursor at (0,0); on a buffer of n > 1 lines it removes the line at
\* cursor_row and no other, and clamps cursor_row to the new last index and
\* cursor_col to the length of the new current line.
C3_DeleteLine ==
    [][ (mode = "normal" /\ key' = "d" /\ next_key' = "d") =>
          IF Len(lines) = 1
          THEN lines' = << <<>> >> /\ row' = 0 /\ col' = 0
          ELSE /\ Len(lines') = Len(lines) - 1
               /\ \A i \in 1..Len(lines') :
                      lines'[i] = IF i <= row THEN lines[i] ELSE lines[i + 1]
               /\ row' = Min(row, Len(lines') - 1)
               /\ col' = Min(col, Len(lines'[row' + 1]))
      ]_vars

\* dd on the middle line of three lines, the first and the last of which differ.
C3_Witness ==
    /\ DeletedLine
    /\ Len(prev.lines) = 3
    /\ prev.row = 1
    /\ lines = <<prev.lines[1], prev.lines[3]>>
    /\ prev.lines[1] # prev.lines[3]
    /\ prev.lines[2] # prev.lines[3]
    /\ row = 1

C6_SplitLine ==
    [][ (mode = "insert" /\ key' \in Enters) =>
          LET old == lines[row + 1]
          IN  /\ Len(lines') = Len(lines) + 1
              /\ lines'[row + 1] = SubSeq(old, 1, col)
              /\ lines'[row + 2] = SubSeq(old, col + 1, Len(old))
              /\ col = Len(old) => lines'[row + 2] = <<>>
              /\ \A i \in 1..row : lines'[i] = lines[i]
              /\ \A i \in (row + 2)..Len(lines) : lines'[i + 1] = lines[i]
              /\ row' = row + 1
              /\ col' = 0
      ]_vars

\* Enter at the end of the first of two lines: an empty line between them,
\* as ["hello", "world"] at (0,5) becomes ["hello", "", "world"] at (1,0).
C6_Witness ==
    /\ Splitted
    /\ Len(prev.lines) = 2
    /\ prev.row = 0
    /\ prev.lines[1] # <<>>
    /\ prev.col = Len(prev.lines[1])
    /\ lines = <<prev.lines[1], <<>>, prev.lines[2]>>
    /\ row = 1
    /\ col = 0

\* Whether the key of this step confirms the command line.
Confirming == mode = "command" /\ key' \in Enters

\* C7: the command q, while the buffer has modifications that were not saved,
\* does not end the session and changes neither the lines nor the modified
\* state; q ends the session only when the buffer is not modified.
C7_QuitRefusedWhenModified ==
    [][ (Confirming /\ command_buffer = <<"q">> /\ modified) =>
          /\ should_exit' = FALSE
          /\ lines' = lines
          /\ modified' = modified
      ]_vars

\* C8: the command q!, confirmed, ends the session whether or not the buffer
\* has modifications that were not saved.
C8_ForceQuitEnds ==
    [][ (Confirming /\ command_buffer = <<"q", "!">>) => should_exit' = TRUE ]_vars

\* C9: the command wq ends the session only if the save succeeded: the file of
\* the buffer then holds its lines and the buffer is not modified; when the save
\* fails (no file name, or an error of the write) the session goes on.
C9_WriteQuitOnlyIfSaved ==
    [][ (Confirming /\ command_buffer = <<"w", "q">> /\ should_exit') =>
          /\ modified' = FALSE
          /\ filename' # <<>>
          /\ filename' \in DOMAIN disk'
          /\ disk'[filename'] = WriteFile(lines')
      ]_vars

\* C10: opening the path that is already the file of the buffer, by the command
\* e or by enter on the file in the tree, keeps the lines in memory, with the
\* changes not saved, and the cursor: nothing is read from the disk.
C10_OpenSamePathKeepsBuffer ==
    [][ ( /\ filename # <<>>
          /\ key' \in Enters
          /\ \/ /\ mode = "command"
                /\ StartsWith(command_buffer, <<"e", " ">>)
                /\ Strip(From(command_buffer, 2)) = filename
             \/ /\ mode # "command"
                /\ tree_view_active
                /\ tree_items = get_tree_items(Self, current_path, <<>>)
                /\ 0 <= selected_item_index
                /\ selected_item_index < Len(tree_items)
                /\ tree_items[selected_item_index + 1].path = filename ) =>
          lines' = lines /\ row' = row /\ col' = col
      ]_vars

\* Whether a holds what the buffer held when it was last saved to a or read
\* from a: a was written (no file is on the disk at first), it is the file of
\* the buffer, and no line has changed since.
SavedToA == filename = FileA /\ FileA \in DOMAIN disk /\ ~modified

\* C11: a buffer saved to a path and then opened from that path, by the command
\* e or as the file of a new session, has the same lines as before, empty lines
\* and an empty last line included.
C11_SaveThenOpenSameLines ==
    [][ ( /\ SavedToA
          /\ \/ Confirming /\ command_buffer = <<"e", " ", "a">>
             \/ NewSession ) =>
          lines' = lines
      ]_vars

\* A new session on a, after a buffer that begins and ends with an empty line
\* was saved to a and then changed: the lines are those that were saved.
C11_Witness ==
    /\ key = NoKey
    /\ filename = FileA
    /\ tree_items = <<>>
    /\ FileA \in DOMAIN disk
    /\ Len(lines) >= 3
    /\ lines[1] = <<>>
    /\ lines[Len(lines)] = <<>>
    /\ \E i \in 1..Len(lines) : lines[i] # <<>>
    /\ prev.lines # lines

\* C12: the command w, confirmed on a buffer that has no file name, saves
\* nothing, does not end the session, leaves the lines, the cursor and the file
\* name as they are, and leaves its error message on the command line.
C12_NoFilenameReported ==
    [][ (Confirming /\ command_buffer = <<"w">> /\ filename = <<>>) =>
          /\ disk' = disk
          /\ should_exit' = FALSE
          /\ lines' = lines /\ row' = row /\ col' = col
          /\ filename' = filename
          /\ command_buffer' # <<>>
      ]_vars

\* Paths as the walk of the tree sees them (a name is one character): the
\* depth of a path, the directory it is in, its directories from the root down.
Depth(p) == (Len(p) + 1) \div 2
Parent(p) == IF Len(p) <= 1 THEN current_path ELSE SubSeq(p, 1, Len(p) - 2)
Above(p) == {SubSeq(p, 1, 2 * k - 1) : k \in 1..(Depth(p) - 1)}
\* The place of a name in the alphabet.
Rank(n) == CHOOSE i \in 1..Len(NameOrder) : NameOrder[i] = n
\* n indent units
Indent(n) == [i \in 1..(2 * n) |-> " "]

\* Whether the entry p is shown: it exists, and every directory above it, below
\* the root, is in the expanded set.
Shown(p) ==
    /\ p \in dirs \cup DOMAIN disk
    /\ \A q \in Above(p) : q \in dirs /\ q \in expanded_dirs

\* Whether p comes before q in the walk: p is above q, or, where their paths
\* part, p goes through a directory and q through a file, or both through
\* entries of the same kind and p through the one that is first in the alphabet.
Before(p, q) ==
    \/ p \in Above(q)
    \/ \E k \in 1..Min(Depth(p), Depth(q)) :
         LET pk == SubSeq(p, 1, 2 * k - 1)
             qk == SubSeq(q, 1, 2 * k - 1)
         IN  /\ Parent(pk) = Parent(qk)
             /\ pk # qk
             /\ \/ pk \in dirs /\ qk \notin dirs
                \/ /\ (pk \in dirs) = (qk \in dirs)
                   /\ Rank(pk[Len(pk)]) < Rank(qk[Len(qk)])

\* Whether tree_items is the walk of the tree as it is on the disk.
IsWalk ==
    /\ \A i \in 1..Len(tree_items) :
         LET item == tree_items[i]
         IN  /\ Shown(item.path)
             /\ item.is_dir = (item.path \in dirs)
             /\ item.prefix = Indent(Depth(item.path) - 1)
             /\ (item.is_dir /\ item.path \in expanded_dirs
                   /\ \E p \in dirs \cup DOMAIN disk : Parent(p) = item.path)
                  => /\ i < Len(tree_items)
                     /\ Parent(tree_items[i + 1].path) = item.path
                     /\ tree_items[i + 1].prefix = item.prefix \o Indent(1)
             /\ (item.is_dir /\ item.path \notin expanded_dirs)
                  => \A j \in 1..Len(tree_items) :
                         item.path \notin Above(tree_items[j].path)
    /\ \A p \in dirs \cup DOMAIN disk :
         Shown(p) => \E i \in 1..Len(tree_items) : tree_items[i].path = p
    /\ \A i, j \in 1..Len(tree_items) :
         i < j => Before(tree_items[i].path, tree_items[j].path)

C14_SelectionInListing ==
    /\ selected_item_index >= 0
    /\ tree_items # <<>> => selected_item_index <= Len(tree_items) - 1
    /\ ~crashed

\* Whether the turn leaves the object that the handler h returned (modified, a
\* history field that Editor.handle_key keeps, aside).
RoutedTo(h) == Self' = [h EXCEPT !.modified = modified']

\* C15: a session starts in Normal mode with the focus on the tree, and every
\* key goes to the command-line handler when the mode is Command, whatever the
\* focus; otherwise to the tree when the tree has the focus, whatever the mode;
\* otherwise to the Normal or the Insert handler, by the mode.
C15_KeyRouting ==
    /\ mode = "normal" /\ tree_view_active = TRUE
    /\ [][ KeyTurn =>
             LET drawn == draw(Self, max_y, max_x)
             IN  IF mode = "command"
                 THEN RoutedTo(handle_command_mode_key(drawn, key'))
                 ELSE IF tree_view_active
                 THEN RoutedTo(handle_tree_view_key(drawn, key'))
                 ELSE IF mode = "normal"
                 THEN RoutedTo(handle_normal_mode_key(drawn, key', next_key'))
                 ELSE mode = "insert"
                      /\ RoutedTo(handle_insert_mode_key(drawn, key'))
         ]_vars

\* The key w went to the command line, which holds it, in Command mode; in
\* Normal mode it would have done nothing.
C15_Witness ==
    /\ mode = "command"
    /\ ~tree_view_active
    /\ key = "w"
    /\ command_buffer = <<"w">>

\* C16: the command e with a path at which nothing exists leaves a buffer of one
\* empty line, the cursor at (0,0), whose file name is that path (so that a w
\* without argument then writes to it).
C16_OpenMissingPath ==
    [][ ( /\ Confirming
          /\ StartsWith(command_buffer, <<"e", " ">>)
          /\ Strip(From(command_buffer, 2)) # <<>>
          /\ ~PathExists(Self, Strip(From(command_buffer, 2))) ) =>
          /\ lines' = << <<>> >>
          /\ row' = 0 /\ col' = 0
          /\ filename' = Strip(From(command_buffer, 2))
      ]_vars

\* C17: in Normal mode, with the focus on the buffer, the key d followed by a
\* key that is not d changes nothing: the lines, the cursor, the mode and the
\* focus are as before, the key that followed is used up, and a d that comes
\* next starts anew (it deletes a line only if its own next key is d).
C17_UnmatchedDeleteDiscarded ==
    [][ ( /\ KeyTurn
          /\ mode = "normal" /\ ~tree_view_active
          /\ key' = "d" /\ next_key' # "d" ) =>
          /\ lines' = lines
          /\ row' = row /\ col' = col
          /\ mode' = mode
          /\ tree_view_active' = tree_view_active
          /\ modified' = modified
      ]_vars

\* d and then x were pressed on a line that holds a character, with the cursor
\* on it: the character is still there.
C17_Witness ==
    /\ key = "d"
    /\ next_key = "x"
    /\ mode = "normal"
    /\ ~tree_view_active
    /\ col < Len(lines[row + 1])

\* C18: with the focus on the buffer, a turn of the loop in which no key comes
\* leaves the cursor on the line and the column it is on, however small the
\* editor window is: a line reached by move_down is still the cursor's line
\* when the next key is handled.
C18_FrameKeepsCursor ==
    [][ (~tree_view_active /\ IdleTurn) => (row' = row /\ col' = col) ]_vars

\* C19: should_exit is set only by a quit command (q, q!, wq) confirmed on the
\* command line; no key that goes to the tree or to the Normal or the Insert
\* handler ends the session.
C19_ExitOnlyByQuitCommand ==
    [][ (~should_exit /\ should_exit') =>
          /\ Confirming
          /\ command_buffer \in {<<"q">>, <<"q", "!">>, <<"w", "q">>}
      ]_vars

\* C20: in every reachable state of a session, the tree has the focus only in
\* Normal mode: in Insert mode and in Command mode the focus is on the buffer.
C20_TreeFocusOnlyInNormal == tree_view_active => mode = "normal"

\* Tab has given the focus back to the tree, in Normal mode, after the buffer
\* was changed (in Insert mode or by a key of Normal mode).
C20_Witness ==
    /\ tree_view_active
    /\ key = K_TAB
    /\ mode = "normal"
    /\ modified
    /\ tree_items # <<>>

====
